---------------------------- MODULE Spec2Model ----------------------------
(***************************************************************************)
(* A model of batterySim.py: the BatteryChargeIOC process-variable group,  *)
(* its simulation loop (the V_sim startup hook) and its two putters.       *)
(*                                                                         *)
(* Python floats are modelled in fixed point.  Voltages are integers in    *)
(* units of 1/VoltScale V, powers in 1/PowerScale W, currents in           *)
(* 1/CurrentScale A; exp and cos are evaluated at 1/FnScale.  Every        *)
(* rounding is directed so that the sign and the strictness of the float   *)
(* result survive: a quotient of a non-zero numerator is never 0, and      *)
(* cos(x) < 1 for every x > 0.  Simulated time is a float holding an       *)
(* integer number of seconds, modelled as an integer.                      *)
(***************************************************************************)
EXTENDS Integers, Sequences, FiniteSets, TLC

----------------------------------------------------------------------------
(* Fixed-point units of the float quantities *)

VoltScale == 100000

PowerScale == 1000

CurrentScale == 100

FnScale == 10000

\* math.pi / 2 at FnScale, rounded up
HalfPi == 15708

----------------------------------------------------------------------------
(* Module-level and class-level constants of the program *)

seconds_per_hour == 3600

battery_capacity == 150

battery_nominal_voltage == 34

model_constant == 80

\* math.log(150 / 80 + 1) * 34 = 35.90579092447667, in 1/VoltScale V
max_voltage == 3590579

solar_power_max == 150

load_power_const == 100

eclipse_half_duration == 3600

sim_interval == 1

enum_strings == <<"Non-Eclipse", "Eclipse">>

----------------------------------------------------------------------------
(* Python builtins and math functions *)

Min(a, b) == IF a <= b THEN a ELSE b

Max(a, b) == IF a >= b THEN a ELSE b

\* ceil(a / b) for a >= 0, b > 0
CeilDiv(a, b) == (a + b - 1) \div b

\* The float quotient n / d (d > 0), rounded away from zero: like the float
\* quotient, it is 0 only when n is.
FloatDiv(n, d) == IF n >= 0 THEN CeilDiv(n, d) ELSE -CeilDiv(-n, d)

\* int(x) of a number given in halves: truncation toward zero.
PyInt(halves) == IF halves >= 0 THEN halves \div 2 ELSE -((-halves) \div 2)

RECURSIVE ExpTerms(_, _, _)
\* Sum of the Taylor terms x^k / k! for k >= n, given term = x^n / n! (at FnScale).
ExpTerms(x, term, n) ==
    IF term = 0 \/ n > 12 THEN 0
    ELSE term + ExpTerms(x, (term * x) \div (FnScale * (n + 1)), n + 1)

\* math.exp(v / battery_nominal_voltage) at FnScale, for a voltage v >= 0 in
\* 1/VoltScale V.
MathExp(v) ==
    LET x == v \div (battery_nominal_voltage * (VoltScale \div FnScale))
    IN  ExpTerms(x, FnScale, 0)

\* 1 - cos(y) at FnScale for an angle 0 <= y <= pi/4 (at FnScale), rounded up:
\* y^2/2 - y^4/24 + y^6/720.
Versine(y) ==
    LET y2 == CeilDiv(y * y, FnScale)
        y4 == (y2 * y2) \div FnScale
        y6 == CeilDiv(y4 * y2, FnScale)
    IN  CeilDiv(y2, 2) - y4 \div 24 + CeilDiv(y6, 720)

\* sin(y) at FnScale for an angle 0 <= y <= pi/4 (at FnScale), rounded down:
\* y - y^3/6 + y^5/120 - y^7/5040.
Sine(y) ==
    LET y2 == (y * y) \div FnScale
        y3 == (y2 * y) \div FnScale
        y5 == (y3 * y2) \div FnScale
        y7 == (y5 * y2) \div FnScale
    IN  Max(0, y - CeilDiv(y3, 6) + y5 \div 120 - CeilDiv(y7, 5040))

\* math.cos(0.5 * math.pi * n / d) at FnScale for 0 <= n <= 2 * d, by the
\* argument reduction of the C library: cos near 0, sin near pi/2, and
\* cos(x) = -cos(pi - x) beyond pi/2.  cos(0) = 1 and cos(pi) = -1 exactly;
\* cos(pi/2) is the float 6.1e-17, which is 0 at FnScale.
RECURSIVE MathCos(_, _)
MathCos(n, d) ==
    IF n > d THEN -MathCos(2 * d - n, d)
    ELSE IF 2 * n <= d THEN FnScale - Versine(CeilDiv(HalfPi * n, d))
    ELSE Sine((HalfPi * (d - n)) \div d)


----------------------------------------------------------------------------
(* Bounds of the model *)

\* Ticks are explored while sim_time < MaxTime.
MaxTime == 3

\* SpecConc: loop iterations start while sim_time < MaxTimeConc.
MaxTimeConc == 2

\* External Eclipse writes that may be in flight at once (SpecConc).
MaxPuts == 2

\* Operations that may overlap in one episode of SpecConc.
MaxOps == 3

\* SpecLong: ticks are explored while sim_time < MaxTimeLong.
MaxTimeLong == 16740

\* SpecLong: a client may enter an eclipse while sim_time <= EntryWindow.
EntryWindow == 1

----------------------------------------------------------------------------
(* Inputs *)

\* The class-level default values of the PVs (lines 59-102) are the inputs of
\* __init__.  The shipped defaults are 32.0 V, 34.0 V, 110.0 W, Non-Eclipse.
ShippedDefaults ==
    [V_sim |-> 32 * VoltScale, V_target |-> 34 * VoltScale,
     Solar_power |-> 110 * PowerScale, Eclipse |-> 0]

DefaultVsim == {-1, 0, 500, 32 * VoltScale, max_voltage, max_voltage + 1}

DefaultVtarget == {-1, 0, 34 * VoltScale, max_voltage, max_voltage + 1}

DefaultSolarPower ==
    {-1, 0, 110 * PowerScale, solar_power_max * PowerScale,
     solar_power_max * PowerScale + 1}

Defaults ==
    [V_sim : DefaultVsim, V_target : DefaultVtarget,
     Solar_power : DefaultSolarPower, Eclipse : {0, 1}]

\* A value handed to a putter: a str, a number (int or float), or an object
\* of another type.  A number written to Eclipse is given in halves (num = 3
\* is 1.5); a number written to V_target is given in 1/VoltScale V.
Str(s) == [type |-> "str", str |-> s, num |-> 0]

Num(n) == [type |-> "number", str |-> "", num |-> n]

NoValue == [type |-> "other", str |-> "", num |-> 0]

EclipseRequests ==
    {Str(s) : s \in {"Non-Eclipse", "Eclipse", "Umbra", "1"}}
        \cup {Num(h) : h \in -2 .. 4} \cup {NoValue}

VtargetRequests ==
    {Num(v) : v \in {-1 * VoltScale, 0, 32 * VoltScale + 20, max_voltage,
                     max_voltage + 1, 40 * VoltScale}}

----------------------------------------------------------------------------
(* State *)

VARIABLES
    ioc,      \* the BatteryChargeIOC instance: PV values and attributes
    proc,     \* the process: "constructed", "serving" or "exited"
    loop,     \* the V_sim startup task: where it is, and its locals
    puts,     \* the Eclipse writes of clients that are in flight
    last,     \* the operation started last: what was asked, what it saw
    ticks,    \* the number of loop iterations completed
    episode   \* SpecConc: the state when all tasks were last at rest, and
              \* the operations started since

vars == <<ioc, proc, loop, puts, last, ticks, episode>>

\* self.eclipse_begin before its first assignment: the attribute is absent.
NoAttr == -1

\* An __init__ that checks the default voltage against 0 only.
IOC_init_NoVoltageCeiling(d) ==
    LET self == [V_sim |-> d.V_sim, I_sim |-> 0, V_target |-> d.V_target,
                 Solar_power |-> d.Solar_power, Eclipse |-> d.Eclipse,
                 initOK |-> TRUE, sim_time |-> 0,
                 init_solar_power |-> d.Solar_power,
                 eclipse_begin |-> NoAttr]
    IN  IF self.V_sim < 0
          THEN [self EXCEPT !.initOK = FALSE]
        ELSE IF self.Solar_power < 0
                  \/ self.Solar_power > solar_power_max * PowerScale
          THEN [self EXCEPT !.initOK = FALSE]
        ELSE IF self.V_target < 0 \/ self.V_target > max_voltage
          THEN [self EXCEPT !.initOK = FALSE]
        ELSE IF self.Eclipse = 1
          THEN [self EXCEPT !.eclipse_begin = self.sim_time]
        ELSE self

\* An __init__ that leaves the onset unassigned when the flag defaults to 1.
IOC_init_NoOnset(d) ==
    LET self == [V_sim |-> d.V_sim, I_sim |-> 0, V_target |-> d.V_target,
                 Solar_power |-> d.Solar_power, Eclipse |-> d.Eclipse,
                 initOK |-> TRUE, sim_time |-> 0,
                 init_solar_power |-> d.Solar_power,
                 eclipse_begin |-> NoAttr]
    IN  IF self.V_sim < 0 \/ self.V_sim > max_voltage
          THEN [self EXCEPT !.initOK = FALSE]
        ELSE IF self.Solar_power < 0
                  \/ self.Solar_power > solar_power_max * PowerScale
          THEN [self EXCEPT !.initOK = FALSE]
        ELSE IF self.V_target < 0 \/ self.V_target > max_voltage
          THEN [self EXCEPT !.initOK = FALSE]
        ELSE self

\* BatteryChargeIOC.__init__ on the default values d.
IOC_init(d) ==
    LET self == [V_sim |-> d.V_sim, I_sim |-> 0, V_target |-> d.V_target,
                 Solar_power |-> d.Solar_power, Eclipse |-> d.Eclipse,
                 initOK |-> TRUE, sim_time |-> 0,
                 init_solar_power |-> d.Solar_power,
                 eclipse_begin |-> NoAttr]
    IN  IF self.V_sim < 0 \/ self.V_sim > max_voltage
          THEN [self EXCEPT !.initOK = FALSE]
        ELSE IF self.Solar_power < 0
                  \/ self.Solar_power > solar_power_max * PowerScale
          THEN [self EXCEPT !.initOK = FALSE]
        ELSE IF self.V_target < 0 \/ self.V_target > max_voltage
          THEN [self EXCEPT !.initOK = FALSE]
        ELSE IF self.Eclipse = 1
          THEN [self EXCEPT !.eclipse_begin = self.sim_time]
        ELSE self

\* The loop task at the top of its while loop.
LoopTop == [pc |-> "top", Isim_value |-> 0, new_value |-> 0]

At(pc) == [LoopTop EXCEPT !.pc = pc]

Idle == [pc |-> "idle", new_value |-> 0]

Started(op, value, prior) == [op |-> op, value |-> value, prior |-> prior]


----------------------------------------------------------------------------
(* The putters *)

\* A V_target putter that forgets the upper limit.
V_target_putter_NoUpperLimit(self, value) == Max(0, value.num)

\* V_target.putter: the value the write commits.
V_target_putter(self, value) == Max(0, Min(value.num, max_voltage))

\* V_target.write(value): the putter, then the commit of what it returns.
V_target_write(self, value) ==
    [self EXCEPT !.V_target = V_target_putter(self, value)]

\* The value the Eclipse putter resolves a request to, or -1 when it rejects
\* the request: enum_strings.index(value) for a str, int(value) for a number
\* with int(value) in range(2).
EclipseResolve(value) ==
    IF value.type = "str"
      THEN IF value.str = enum_strings[1] THEN 0
           ELSE IF value.str = enum_strings[2] THEN 1
           ELSE -1
    ELSE IF value.type = "number" /\ PyInt(value.num) \in 0 .. 1
      THEN PyInt(value.num)
    ELSE -1

\* An Eclipse putter that leaves the solar power as the eclipse left it.
Eclipse_putter_NoRestore(self, value) ==
    LET new_value == EclipseResolve(value)
    IN  IF new_value = -1
          THEN [ioc |-> self, returned |-> TRUE, new_value |-> self.Eclipse]
        ELSE IF new_value = 1 /\ self.Eclipse = 0
          THEN [ioc |-> [self EXCEPT !.eclipse_begin = self.sim_time],
                returned |-> TRUE, new_value |-> new_value]
        ELSE [ioc |-> self, returned |-> TRUE, new_value |-> new_value]

\* An Eclipse putter that stamps the onset with the time of the tick after
\* the one under way.
Eclipse_putter_StampsNextTick(self, value) ==
    LET new_value == EclipseResolve(value)
    IN  IF new_value = -1
          THEN [ioc |-> self, returned |-> TRUE, new_value |-> self.Eclipse]
        ELSE IF new_value = 1 /\ self.Eclipse = 0
          THEN [ioc |-> [self EXCEPT !.eclipse_begin =
                                        self.sim_time + sim_interval],
                returned |-> TRUE, new_value |-> new_value]
        ELSE IF new_value = 0 /\ self.Eclipse = 1
          THEN [ioc |-> [self EXCEPT !.Solar_power = self.init_solar_power],
                returned |-> FALSE, new_value |-> new_value]
        ELSE [ioc |-> self, returned |-> TRUE, new_value |-> new_value]

\* An Eclipse putter that stamps the onset on every accepted request for 1,
\* whatever the flag was.
Eclipse_putter_RestartsEclipse(self, value) ==
    LET new_value == EclipseResolve(value)
    IN  IF new_value = -1
          THEN [ioc |-> self, returned |-> TRUE, new_value |-> self.Eclipse]
        ELSE IF new_value = 1
          THEN [ioc |-> [self EXCEPT !.eclipse_begin = self.sim_time],
                returned |-> TRUE, new_value |-> new_value]
        ELSE IF new_value = 0 /\ self.Eclipse = 1
          THEN [ioc |-> [self EXCEPT !.Solar_power = self.init_solar_power],
                returned |-> FALSE, new_value |-> new_value]
        ELSE [ioc |-> self, returned |-> TRUE, new_value |-> new_value]

\* An Eclipse putter that also blanks the solar power when the eclipse
\* begins.
Eclipse_putter_DarkensAtOnset(self, value) ==
    LET new_value == EclipseResolve(value)
    IN  IF new_value = -1
          THEN [ioc |-> self, returned |-> TRUE, new_value |-> self.Eclipse]
        ELSE IF new_value = 1 /\ self.Eclipse = 0
          THEN [ioc |-> [self EXCEPT !.eclipse_begin = self.sim_time,
                                     !.Solar_power = 0],
                returned |-> TRUE, new_value |-> new_value]
        ELSE IF new_value = 0 /\ self.Eclipse = 1
          THEN [ioc |-> [self EXCEPT !.Solar_power = self.init_solar_power],
                returned |-> FALSE, new_value |-> new_value]
        ELSE [ioc |-> self, returned |-> TRUE, new_value |-> new_value]

\* An Eclipse putter that stamps eclipse_begin when the eclipse is left, too.
Eclipse_putter_StampsExit(self, value) ==
    LET new_value == EclipseResolve(value)
    IN  IF new_value = -1
          THEN [ioc |-> self, returned |-> TRUE, new_value |-> self.Eclipse]
        ELSE IF new_value = 1 /\ self.Eclipse = 0
          THEN [ioc |-> [self EXCEPT !.eclipse_begin = self.sim_time],
                returned |-> TRUE, new_value |-> new_value]
        ELSE IF new_value = 0 /\ self.Eclipse = 1
          THEN [ioc |-> [self EXCEPT !.Solar_power = self.init_solar_power,
                                     !.eclipse_begin = self.sim_time],
                returned |-> FALSE, new_value |-> new_value]
        ELSE [ioc |-> self, returned |-> TRUE, new_value |-> new_value]

\* Eclipse.putter up to its first await or its return.  returned says whether
\* it returned (new_value is then what the write commits) or is suspended in
\* `await self.Solar_power.write(self.init_solar_power)`, which has committed
\* the solar power.
Eclipse_putter(self, value) ==
    LET new_value == EclipseResolve(value)
    IN  IF new_value = -1
          THEN [ioc |-> self, returned |-> TRUE, new_value |-> self.Eclipse]
        ELSE IF new_value = 1 /\ self.Eclipse = 0
          THEN [ioc |-> [self EXCEPT !.eclipse_begin = self.sim_time],
                returned |-> TRUE, new_value |-> new_value]
        ELSE IF new_value = 0 /\ self.Eclipse = 1
          THEN [ioc |-> [self EXCEPT !.Solar_power = self.init_solar_power],
                returned |-> FALSE, new_value |-> new_value]
        ELSE [ioc |-> self, returned |-> TRUE, new_value |-> new_value]

\* The commit of the value the Eclipse putter returned.
Eclipse_commit(self, new_value) == [self EXCEPT !.Eclipse = new_value]

\* Eclipse.write(value) run without interruption.
Eclipse_write(self, value) ==
    LET r == Eclipse_putter(self, value)
    IN  Eclipse_commit(r.ioc, r.new_value)

----------------------------------------------------------------------------
(* The simulation loop: the body of `while True`, cut at its awaits *)

\* deltaV = charging_power * deltaT * battery_nominal_voltage
\*              / (model_constant * tmp),  tmp = exp(Vsim_value / nominal),
\* with deltaT = sim_interval * hours_per_second.  In the model's units the
\* factor hours_per_second / model_constant is
\* (VoltScale * FnScale) / (PowerScale * seconds_per_hour * model_constant),
\* reduced by 8000 to keep the products in range.
DeltaV(charging_power, Vsim_value) ==
    LET num == (VoltScale * FnScale) \div (PowerScale * 8000)
        den == (seconds_per_hour * model_constant) \div 8000
    IN  FloatDiv(charging_power * sim_interval * battery_nominal_voltage * num,
                 den * MathExp(Vsim_value))

\* Isim_value = charging_power / Vsim_value, for Vsim_value > 0.
DischargeCurrent(charging_power, Vsim_value) ==
    FloatDiv(charging_power * ((VoltScale * CurrentScale) \div PowerScale),
             Vsim_value)

\* A loop that advances its clock by the sleep, a tenth of the tick size
\* (0.1 * sim_interval), which the integer clock does not see.
NextStep_AdvancesBySleep(self) == [ioc |-> self, loop |-> LoopTop]

\* Lines 176-178: the clock advances, the task sleeps, the loop starts over.
NextStep(self) ==
    [ioc |-> [self EXCEPT !.sim_time = @ + sim_interval], loop |-> LoopTop]

\* A phase test that lets the eclipse run one tick longer.
EclipsePhase_EndsLate(elapsed, half) ==
    IF elapsed > 0 /\ elapsed <= half THEN "decay"
    ELSE IF elapsed > half /\ elapsed <= 2 * half + sim_interval THEN "recover"
    ELSE IF elapsed > 2 * half + sim_interval THEN "end"
    ELSE "none"

\* A phase test that applies the decay formula through both halves.
EclipsePhase_DecaysThroughout(elapsed, half) ==
    IF elapsed > 0 /\ elapsed <= 2 * half THEN "decay"
    ELSE IF elapsed > 2 * half THEN "end"
    ELSE "none"

\* The branch the if/elif chain of lines 167-173 takes on
\* tmp = elapsed / half.
EclipsePhase(elapsed, half) ==
    IF elapsed > 0 /\ elapsed <= half THEN "decay"
    ELSE IF elapsed > half /\ elapsed <= 2 * half THEN "recover"
    ELSE IF elapsed > 2 * half THEN "end"
    ELSE "none"

\* An eclipse update whose last branch publishes one more value of the
\* recovery formula and clears the flag itself, without the putter.
EclipseUpdate_EndPublishes(self) ==
    IF self.Eclipse = 1
      THEN IF self.eclipse_begin = NoAttr
             THEN [ioc |-> self, loop |-> At("fault")]
           ELSE
             LET elapsed == self.sim_time - self.eclipse_begin
                 half == eclipse_half_duration
                 phase == EclipsePhase(elapsed, half)
             IN  IF phase = "decay"
                   THEN [ioc |-> [self EXCEPT !.Solar_power =
                                    (self.init_solar_power
                                        * MathCos(elapsed, half)) \div FnScale],
                         loop |-> At("next")]
                 ELSE IF phase \in {"recover", "end"}
                   THEN [ioc |-> [self EXCEPT
                                    !.Solar_power =
                                        ((-self.init_solar_power)
                                            * MathCos(elapsed, half)) \div FnScale,
                                    !.Eclipse = IF phase = "end" THEN 0 ELSE 1],
                         loop |-> At("next")]
                 ELSE NextStep(self)
    ELSE NextStep(self)

\* Lines 164-174, up to the first await; without one, on through line 178.
EclipseUpdate(self) ==
    IF self.Eclipse = 1
      THEN IF self.eclipse_begin = NoAttr
             THEN [ioc |-> self, loop |-> At("fault")]    \* AttributeError
           ELSE
             LET elapsed == self.sim_time - self.eclipse_begin
                 half == eclipse_half_duration
                 phase == EclipsePhase(elapsed, half)
             IN  IF phase = "decay"
                   THEN [ioc |-> [self EXCEPT !.Solar_power =
                                    (self.init_solar_power
                                        * MathCos(elapsed, half)) \div FnScale],
                         loop |-> At("next")]
                 ELSE IF phase = "recover"
                   THEN [ioc |-> [self EXCEPT !.Solar_power =
                                    ((-self.init_solar_power)
                                        * MathCos(elapsed, half)) \div FnScale],
                         loop |-> At("next")]
                 ELSE IF phase = "end"
                   THEN LET r == Eclipse_putter(self, Num(0))
                        IN  IF r.returned
                              THEN [ioc |-> Eclipse_commit(r.ioc, r.new_value),
                                    loop |-> At("next")]
                            ELSE [ioc |-> r.ioc,
                                  loop |-> [At("putter_return")
                                              EXCEPT !.new_value = r.new_value]]
                 ELSE NextStep(self)
    ELSE NextStep(self)

\* A charging step that does not stop at the target.
ChargedVoltage_Unclamped(Vsim_value, charging_power, target_V) ==
    Vsim_value + DeltaV(charging_power, Vsim_value)

\* Lines 148-151: the voltage a charging tick writes.
ChargedVoltage(Vsim_value, charging_power, target_V) ==
    Min(Vsim_value + DeltaV(charging_power, Vsim_value), target_V)

\* Lines 157-160: the voltage a discharging tick writes.
DischargedVoltage(Vsim_value, charging_power) ==
    Max(Vsim_value + DeltaV(charging_power, Vsim_value), 0)

\* A loop that survives the division by a zero voltage: it writes a zero
\* current and carries on.
ChargeUpdate_SurvivesFault(self) ==
    LET Vsim_value == self.V_sim
        target_V == self.V_target
        sp_value == self.Solar_power
        charging_power == sp_value - load_power_const * PowerScale
    IN  IF charging_power > 0 /\ Vsim_value < target_V
          THEN [ioc |-> [self EXCEPT !.V_sim =
                           ChargedVoltage(Vsim_value, charging_power, target_V)],
                loop |-> At("I_sim_write")]
        ELSE IF charging_power < 0
          THEN [ioc |-> [self EXCEPT !.V_sim =
                           DischargedVoltage(Vsim_value, charging_power)],
                loop |-> [At("I_sim_write") EXCEPT !.Isim_value =
                            IF Vsim_value = 0 THEN 0
                            ELSE DischargeCurrent(charging_power, Vsim_value)]]
        ELSE EclipseUpdate(self)

\* A loop that writes a zero current on a tick that neither charges nor
\* discharges.
ChargeUpdate_IdleZeroesCurrent(self) ==
    LET Vsim_value == self.V_sim
        target_V == self.V_target
        sp_value == self.Solar_power
        charging_power == sp_value - load_power_const * PowerScale
    IN  IF charging_power > 0 /\ Vsim_value < target_V
          THEN [ioc |-> [self EXCEPT !.V_sim =
                           ChargedVoltage(Vsim_value, charging_power, target_V)],
                loop |-> At("I_sim_write")]
        ELSE IF charging_power < 0
          THEN IF Vsim_value = 0
                 THEN [ioc |-> self, loop |-> At("fault")]
               ELSE [ioc |-> [self EXCEPT !.V_sim =
                                DischargedVoltage(Vsim_value, charging_power)],
                     loop |-> [At("I_sim_write") EXCEPT !.Isim_value =
                                 DischargeCurrent(charging_power, Vsim_value)]]
        ELSE EclipseUpdate([self EXCEPT !.I_sim = 0])

\* Lines 140-162, up to the first await; without one, on through the eclipse
\* update.
ChargeUpdate(self) ==
    LET Vsim_value == self.V_sim
        target_V == self.V_target
        sp_value == self.Solar_power
        charging_power == sp_value - load_power_const * PowerScale
    IN  IF charging_power > 0 /\ Vsim_value < target_V
          THEN [ioc |-> [self EXCEPT !.V_sim =
                           ChargedVoltage(Vsim_value, charging_power, target_V)],
                loop |-> At("I_sim_write")]
        ELSE IF charging_power < 0
          THEN IF Vsim_value = 0
                 THEN [ioc |-> self, loop |-> At("fault")] \* ZeroDivisionError
               ELSE [ioc |-> [self EXCEPT !.V_sim =
                                DischargedVoltage(Vsim_value, charging_power)],
                     loop |-> [At("I_sim_write") EXCEPT !.Isim_value =
                                 DischargeCurrent(charging_power, Vsim_value)]]
        ELSE EclipseUpdate(self)

\* The loop task runs from where it is to its next await.
LoopSegment(self, l) ==
    CASE l.pc = "top" -> ChargeUpdate(self)
      [] l.pc = "I_sim_write" ->
            [ioc |-> [self EXCEPT !.I_sim = l.Isim_value], loop |-> At("eclipse")]
      [] l.pc = "eclipse" -> EclipseUpdate(self)
      [] l.pc = "putter_return" ->
            [ioc |-> Eclipse_commit(self, l.new_value), loop |-> At("next")]
      [] l.pc = "next" -> NextStep(self)
      [] OTHER -> [ioc |-> self, loop |-> l]

RECURSIVE RunToSleep(_)
RunToSleep(r) ==
    IF r.loop.pc \in {"top", "fault"} THEN r
    ELSE RunToSleep(LoopSegment(r.ioc, r.loop))

\* One iteration of the loop run without interruption: to the sleep that ends
\* it, or to the exception that ends the task.
Iteration(self) == RunToSleep(ChargeUpdate(self))

----------------------------------------------------------------------------
(* The program, one operation at a time *)

Init ==
    /\ \E d \in Defaults : ioc = IOC_init(d)
    /\ proc = "constructed"
    /\ loop = LoopTop
    /\ puts = [i \in 1 .. MaxPuts |-> Idle]
    /\ last = Started("init", NoValue, 0)
    /\ ticks = 0
    /\ episode = [ioc |-> ioc, loop |-> loop, ops |-> <<>>]

\* __main__: exit(1) when the initialisation failed, else run the server,
\* which starts the loop task.
Main ==
    /\ proc = "constructed"
    /\ proc' = IF ioc.initOK THEN "serving" ELSE "exited"
    /\ UNCHANGED <<ioc, loop, puts, last, ticks, episode>>

Tick ==
    /\ proc = "serving"
    /\ loop.pc = "top"
    /\ ioc.sim_time < MaxTime
    /\ LET r == Iteration(ioc)
       IN  /\ ioc' = r.ioc
           /\ loop' = r.loop
           /\ ticks' = IF r.loop.pc = "top" THEN ticks + 1 ELSE ticks
    /\ last' = Started("tick", NoValue, ioc.Eclipse)
    /\ UNCHANGED <<proc, puts, episode>>

WriteVtarget ==
    /\ proc = "serving"
    /\ \E value \in VtargetRequests :
          /\ ioc' = V_target_write(ioc, value)
          /\ last' = Started("V_target", value, ioc.V_target)
    /\ UNCHANGED <<proc, loop, puts, ticks, episode>>

WriteEclipse ==
    /\ proc = "serving"
    /\ \E value \in EclipseRequests :
          /\ ioc' = Eclipse_write(ioc, value)
          /\ last' = Started("Eclipse", value, ioc.Eclipse)
    /\ UNCHANGED <<proc, loop, puts, ticks, episode>>

Next == Main \/ Tick \/ WriteVtarget \/ WriteEclipse

Spec == Init /\ [][Next]_vars


----------------------------------------------------------------------------
(* The shipped program over whole eclipses *)

\* SpecLong runs the program for MaxTimeLong ticks, as shipped or with the
\* default solar power equal to the load.  A client enters an eclipse during
\* the first EntryWindow seconds, or again as soon as the loop has ended one,
\* and may lower the target voltage once during the first EntryWindow seconds.
LongDefaults ==
    {ShippedDefaults,
     [ShippedDefaults EXCEPT !.Solar_power = load_power_const * PowerScale]}

LoweredTarget == Num(10 * VoltScale)

InitLong ==
    /\ \E d \in LongDefaults : ioc = IOC_init(d)
    /\ proc = "constructed"
    /\ loop = LoopTop
    /\ puts = [i \in 1 .. MaxPuts |-> Idle]
    /\ last = Started("init", NoValue, 0)
    /\ ticks = 0
    /\ episode = [ioc |-> ioc, loop |-> loop, ops |-> <<>>]

TickLong ==
    /\ proc = "serving"
    /\ loop.pc = "top"
    /\ ioc.sim_time < MaxTimeLong
    /\ LET r == Iteration(ioc)
       IN  /\ ioc' = r.ioc
           /\ loop' = r.loop
           /\ ticks' = IF r.loop.pc = "top" THEN ticks + 1 ELSE ticks
    /\ last' = Started("tick", NoValue, ioc.Eclipse)
    /\ UNCHANGED <<proc, puts, episode>>

EnterEclipse ==
    /\ proc = "serving"
    /\ ioc.Eclipse = 0
    /\ \/ ioc.sim_time <= EntryWindow
       \/ last.op = "tick" /\ last.prior = 1
    /\ \E value \in {Str("Eclipse"), Num(2)} :
          /\ ioc' = Eclipse_write(ioc, value)
          /\ last' = Started("Eclipse", value, ioc.Eclipse)
    /\ UNCHANGED <<proc, loop, puts, ticks, episode>>

LowerTarget ==
    /\ proc = "serving"
    /\ ioc.sim_time <= EntryWindow
    /\ ioc.V_target = ShippedDefaults.V_target
    /\ ioc' = V_target_write(ioc, LoweredTarget)
    /\ last' = Started("V_target", LoweredTarget, ioc.V_target)
    /\ UNCHANGED <<proc, loop, puts, ticks, episode>>

NextLong == Main \/ TickLong \/ EnterEclipse \/ LowerTarget

SpecLong == InitLong /\ [][NextLong]_vars

----------------------------------------------------------------------------
(* The program with its tasks interleaved at their awaits *)

\* Every task is at rest: the loop sleeps (or is dead) and no write of a
\* client is part-way through.
AtRest ==
    /\ loop.pc \in {"top", "fault"}
    /\ \A i \in 1 .. MaxPuts : puts[i].pc = "idle"

\* The bookkeeping of an operation that starts: from rest it opens a new
\* episode, otherwise it joins the running one.
Begin(op) ==
    IF AtRest THEN [ioc |-> ioc, loop |-> loop, ops |-> <<op>>]
    ELSE [episode EXCEPT !.ops = Append(@, op)]

MayBegin == AtRest \/ Len(episode.ops) < MaxOps

\* The requests clients make in SpecConc: a state name, a state number, a
\* rejected name and a fractional number; a target just above the voltage.
ConcEclipseRequests == {Str("Non-Eclipse"), Num(2), Str("Umbra"), Num(1)}

ConcVtargetRequests == {Num(32 * VoltScale + 20)}

InitConc ==
    /\ \E e \in {0, 1} : ioc = IOC_init([ShippedDefaults EXCEPT !.Eclipse = e])
    /\ proc = "constructed"
    /\ loop = LoopTop
    /\ puts = [i \in 1 .. MaxPuts |-> Idle]
    /\ last = Started("init", NoValue, 0)
    /\ ticks = 0
    /\ episode = [ioc |-> ioc, loop |-> loop, ops |-> <<>>]

\* The loop task wakes up and starts an iteration.
LoopStart ==
    /\ proc = "serving"
    /\ loop.pc = "top"
    /\ ioc.sim_time < MaxTimeConc
    /\ MayBegin
    /\ LET r == LoopSegment(ioc, loop)
       IN  /\ ioc' = r.ioc
           /\ loop' = r.loop
           /\ ticks' = IF r.ioc.sim_time # ioc.sim_time THEN ticks + 1 ELSE ticks
    /\ last' = Started("tick", NoValue, ioc.Eclipse)
    /\ episode' = Begin(Started("tick", NoValue, 0))
    /\ UNCHANGED <<proc, puts>>

\* The loop task resumes from an await and runs to its next one.
LoopResume ==
    /\ proc = "serving"
    /\ loop.pc \notin {"top", "fault"}
    /\ LET r == LoopSegment(ioc, loop)
       IN  /\ ioc' = r.ioc
           /\ loop' = r.loop
           /\ ticks' = IF r.ioc.sim_time # ioc.sim_time THEN ticks + 1 ELSE ticks
    /\ UNCHANGED <<proc, puts, last, episode>>

\* A client's write to Eclipse starts: the putter runs to its return, and the
\* write commits, or to its await.
PutStart ==
    /\ proc = "serving"
    /\ MayBegin
    /\ \E i \in 1 .. MaxPuts, value \in ConcEclipseRequests :
          /\ puts[i].pc = "idle"
          /\ \A j \in 1 .. i - 1 : puts[j].pc # "idle"
          /\ LET r == Eclipse_putter(ioc, value)
             IN  IF r.returned
                   THEN /\ ioc' = Eclipse_commit(r.ioc, r.new_value)
                        /\ puts' = puts
                 ELSE /\ ioc' = r.ioc
                      /\ puts' = [puts EXCEPT ![i] =
                                    [pc |-> "putter_return",
                                     new_value |-> r.new_value]]
          /\ last' = Started("Eclipse", value, ioc.Eclipse)
          /\ episode' = Begin(Started("Eclipse", value, 0))
    /\ UNCHANGED <<proc, loop, ticks>>

\* A suspended Eclipse putter resumes and returns; the write commits.
PutReturn ==
    /\ proc = "serving"
    /\ \E i \in 1 .. MaxPuts :
          /\ puts[i].pc = "putter_return"
          /\ ioc' = Eclipse_commit(ioc, puts[i].new_value)
          /\ puts' = [puts EXCEPT ![i] = Idle]
    /\ UNCHANGED <<proc, loop, last, ticks, episode>>

\* A client's write to V_target: the putter has no await.
PutVtarget ==
    /\ proc = "serving"
    /\ MayBegin
    /\ \E value \in ConcVtargetRequests :
          /\ ioc' = V_target_write(ioc, value)
          /\ last' = Started("V_target", value, ioc.V_target)
          /\ episode' = Begin(Started("V_target", value, 0))
    /\ UNCHANGED <<proc, loop, puts, ticks>>

NextConc ==
    Main \/ LoopStart \/ LoopResume \/ PutStart \/ PutReturn \/ PutVtarget

SpecConc == InitConc /\ [][NextConc]_vars

\* The operation op run alone, without interruption, on s = [ioc, loop].
Alone(s, op) ==
    CASE op.op = "tick" ->
            IF s.loop.pc = "fault" THEN s
            ELSE LET r == Iteration(s.ioc) IN [ioc |-> r.ioc, loop |-> r.loop]
      [] op.op = "Eclipse" ->
            [ioc |-> Eclipse_write(s.ioc, op.value), loop |-> s.loop]
      [] op.op = "V_target" ->
            [ioc |-> V_target_write(s.ioc, op.value), loop |-> s.loop]

RECURSIVE Serially(_, _, _, _)
\* The operations ops[order[k]], k = from .. Len(ops), run one after another.
Serially(s, ops, order, from) ==
    IF from > Len(ops) THEN s
    ELSE Serially(Alone(s, ops[order[from]]), ops, order, from + 1)

Orders(n) == {f \in [1 .. n -> 1 .. n] : \A i, j \in 1 .. n : f[i] = f[j] => i = j}

\* What the episode's operations leave when run in some serial order.
SerialOutcomes ==
    {Serially([ioc |-> episode.ioc, loop |-> episode.loop], episode.ops, f, 1) :
        f \in Orders(Len(episode.ops))}

----------------------------------------------------------------------------
(* Vocabulary of the properties *)

InRange(x, lo, hi) == lo <= x /\ x <= hi

Clamp(x, lo, hi) == IF x < lo THEN lo ELSE IF x > hi THEN hi ELSE x

\* solarPowerW - loadPowerW, as the next tick will compute it
NetPower == ioc.Solar_power - load_power_const * PowerScale

\* The step completes a loop iteration.
TickCompletes == ticks' = ticks + 1

\* The step is the loop task dying of an exception.
TickFaults == loop.pc # "fault" /\ loop'.pc = "fault"

\* The requests the eclipse setter is specified to accept: the two state
\* names and the numbers 0 and 1 (numbers are given in halves).
SpecifiedEclipseRequests == {Str("Non-Eclipse"), Str("Eclipse"), Num(0), Num(2)}

----------------------------------------------------------------------------
(* C1 *)

\* C1: with writes and ticks processed one at a time, a step that takes the
\* eclipse flag from 0 to 1 at simulated time t leaves eclipse_begin = t, and
\* a step that takes it from 1 to 0 leaves Solar_power equal to
\* init_solar_power, the solar power captured at startup and never changed.
C1_OnsetRecordedAndSolarRestored ==
    /\ ioc.init_solar_power = ioc.Solar_power
    /\ [][/\ ioc'.init_solar_power = ioc.init_solar_power
          /\ (ioc.Eclipse = 0 /\ ioc'.Eclipse = 1)
                => ioc'.eclipse_begin = ioc.sim_time
          /\ (ioc.Eclipse = 1 /\ ioc'.Eclipse = 0)
                => ioc'.Solar_power = ioc.init_solar_power]_vars

\* An eclipse entered by a write at t > 0, dipped by a tick with a positive
\* phase, then left by a write: the solar power is back at its startup value.
C1_Witness ==
    /\ last.op = "Eclipse" /\ last.prior = 1 /\ ioc.Eclipse = 0
    /\ ioc.eclipse_begin > 0
    /\ ioc.sim_time >= ioc.eclipse_begin + 2
    /\ ioc.init_solar_power > 0
    /\ ioc.Solar_power = ioc.init_solar_power

----------------------------------------------------------------------------
(* C2 *)

\* C2: an eclipse write whose request is none of "Non-Eclipse", "Eclipse", 0
\* and 1 commits the prior flag and changes neither eclipse_begin nor
\* Solar_power.
C2_UnspecifiedRequestRejected ==
    [][(last'.op = "Eclipse" /\ last'.value \notin SpecifiedEclipseRequests)
         => /\ ioc'.Eclipse = ioc.Eclipse
            /\ ioc'.eclipse_begin = ioc.eclipse_begin
            /\ ioc'.Solar_power = ioc.Solar_power]_vars

----------------------------------------------------------------------------
(* C3 *)

\* C3: whenever the loop is about to start a tick with negative net power,
\* the voltage it will divide by is strictly positive.
C3_DischargeVoltagePositive ==
    (proc = "serving" /\ loop.pc = "top" /\ NetPower < 0) => ioc.V_sim > 0

----------------------------------------------------------------------------
(* C4 *)

\* C4: once the process serves, V_sim stays in [0, max_voltage]; a charging
\* tick (net power > 0, voltage below target) never leaves the voltage above
\* the target, and a discharging tick never leaves it below 0.
C4_VoltageInRange ==
    /\ [](ioc.initOK => InRange(ioc.V_sim, 0, max_voltage))
    /\ [][TickCompletes =>
            /\ (NetPower > 0 /\ ioc.V_sim < ioc.V_target)
                  => ioc'.V_sim <= ioc.V_target
            /\ NetPower < 0 => ioc'.V_sim >= 0]_vars

\* A charging tick whose step would have overshot the target stopped at it.
C4_Witness ==
    /\ last.op = "tick" /\ ticks > 0
    /\ ioc.V_sim = ioc.V_target
    /\ ioc.V_sim \notin DefaultVsim

----------------------------------------------------------------------------
(* C5 *)

\* C5: a target-voltage write commits clamp(requested, 0, max_voltage) and
\* changes nothing else; V_target is in [0, max_voltage] once the process
\* serves.
C5_TargetClamped ==
    /\ [](ioc.initOK => InRange(ioc.V_target, 0, max_voltage))
    /\ [][last'.op = "V_target" =>
            /\ ioc' = [ioc EXCEPT !.V_target =
                         Clamp(last'.value.num, 0, max_voltage)]
            /\ InRange(last'.value.num, 0, max_voltage)
                  => ioc'.V_target = last'.value.num
            /\ loop' = loop /\ ticks' = ticks /\ proc' = proc]_vars

\* A request above max_voltage was committed as max_voltage.
C5_Witness ==
    /\ last.op = "V_target" /\ last.value.num > max_voltage
    /\ last.prior < max_voltage
    /\ ioc.V_target = max_voltage

----------------------------------------------------------------------------
(* C6 *)

\* The defaults of the three validated PVs are within their ranges.
DefaultsValid ==
    /\ InRange(ioc.V_sim, 0, max_voltage)
    /\ InRange(ioc.Solar_power, 0, solar_power_max * PowerScale)
    /\ InRange(ioc.V_target, 0, max_voltage)

\* C6: with a default of V_sim, Solar_power or V_target out of range, initOK
\* is false, the process exits without serving, no tick runs, simulated time
\* stays 0 and nothing is ever written; with all three in range initOK is
\* true and the process goes on to serve.
C6_StartupValidation ==
    /\ [](~DefaultsValid =>
            /\ ~ioc.initOK /\ proc \in {"constructed", "exited"}
            /\ ticks = 0 /\ ioc.sim_time = 0 /\ loop = LoopTop
            /\ last.op = "init")
    /\ []((proc = "constructed" /\ DefaultsValid) => ioc.initOK)
    /\ [][/\ ~ioc.initOK => (ioc' = ioc /\ proc' \in {proc, "exited"})
          /\ (ioc.initOK /\ proc = "constructed") => proc' = "serving"]_vars

\* The process has exited on a default voltage above max_voltage.
C6_Witness ==
    proc = "exited" /\ ioc.V_sim > max_voltage /\ ~ioc.initOK

----------------------------------------------------------------------------
(* C8 *)

\* C8: a tick that finds zero voltage under negative net power ends the loop
\* task: that tick writes nothing and does not advance the clock, and no
\* tick runs afterwards (the voltage, the current and the clock stay).
C8_FaultIsFatal ==
    [][/\ (ticks' # ticks \/ loop' # loop)
            => ((NetPower < 0 /\ ioc.V_sim = 0) <=> TickFaults)
       /\ TickFaults => (ioc' = ioc /\ ticks' = ticks)
       /\ loop.pc = "fault"
            => /\ loop' = loop /\ ticks' = ticks
               /\ ioc'.sim_time = ioc.sim_time
               /\ ioc'.V_sim = ioc.V_sim /\ ioc'.I_sim = ioc.I_sim]_vars

\* The loop task has died after completing ticks that discharged the battery
\* to the floor.
C8_Witness ==
    loop.pc = "fault" /\ ticks > 0 /\ ioc.V_sim = 0 /\ ioc.I_sim < 0

----------------------------------------------------------------------------
(* C10 *)

\* C10: sim_time is 0 at startup, equals the number of completed ticks times
\* the tick size ever after, and changes only by a completed tick, which adds
\* exactly sim_interval.
C10_ClockCountsTicks ==
    /\ [](ioc.sim_time = ticks * sim_interval)
    /\ [][\/ ioc'.sim_time = ioc.sim_time /\ ticks' = ticks
          \/ /\ ioc'.sim_time = ioc.sim_time + sim_interval
             /\ TickCompletes /\ last'.op = "tick"]_vars

\* Two ticks have completed and the clock reads 2.
C10_Witness == ticks = 2 /\ ioc.sim_time = 2 /\ last.op = "tick"


----------------------------------------------------------------------------
(* C9 *)

\* C9: whenever all tasks are at rest, the eclipse flag, the eclipse onset
\* and the solar power are what some serial order of the operations that ran
\* since the last rest would have left.
C9_EclipseFieldsSerializable ==
    AtRest =>
        \E s \in SerialOutcomes :
            /\ s.ioc.Eclipse = ioc.Eclipse
            /\ s.ioc.eclipse_begin = ioc.eclipse_begin
            /\ s.ioc.Solar_power = ioc.Solar_power


----------------------------------------------------------------------------
(* C7 *)

\* C7: a tick that finds the eclipse flag set keeps it while the time since
\* the onset is at most twice the half duration, and clears it on the first
\* tick beyond; after an entry at t = 0 that no write follows, the flag is 1
\* after the tick at sim_time = 7200 and 0 after the tick at sim_time = 7201.
C7_EclipseEndsAfterTwoHalves ==
    /\ [][(TickCompletes /\ ioc.Eclipse = 1) =>
            ioc'.Eclipse =
                IF ioc.sim_time - ioc.eclipse_begin
                      > 2 * eclipse_half_duration THEN 0 ELSE 1]_vars
    /\ []((proc = "serving" /\ ioc.eclipse_begin = 0)
             => (ioc.Eclipse = 1 <=> ioc.sim_time <= 7201))

\* The tick at sim_time = 7201 has just cleared the flag of the eclipse
\* entered at 0, and the solar power is restored.
C7_Witness ==
    /\ last.op = "tick" /\ last.prior = 1 /\ ioc.Eclipse = 0
    /\ ioc.eclipse_begin = 0 /\ ioc.sim_time = 7202
    /\ ioc.Solar_power = ioc.init_solar_power

----------------------------------------------------------------------------
(* C11 *)

\* C11: whenever no write and no tick is part-way through, a cleared eclipse
\* flag comes with the solar power at its startup value: Eclipse = 0 implies
\* Solar_power = init_solar_power.
C11_ClearedFlagHasFullSolar ==
    (AtRest /\ ioc.Eclipse = 0) => ioc.Solar_power = ioc.init_solar_power

----------------------------------------------------------------------------
(* C12 *)

\* sim_time - eclipse_begin, the time since the onset the next tick will see
Elapsed == ioc.sim_time - ioc.eclipse_begin

\* C12 as stated: on every tick that finds the eclipse flag set, the time
\* since the onset (the phase times the half duration) is strictly positive.
C12_PhasePositive ==
    [][(TickCompletes /\ ioc.Eclipse = 1) => Elapsed > 0]_vars

\* C12 amended: on every tick that finds the eclipse flag set the time since
\* the onset is never negative; it is exactly 0 on the first tick after
\* startup with the flag defaulting to 1 and on the first tick after a write
\* took the flag from 0 to 1, and that tick leaves the solar power and the
\* flag as they are; on every later tick of the eclipse it is positive.
C12_PhaseNeverNegative ==
    [][(TickCompletes /\ ioc.Eclipse = 1) =>
          /\ Elapsed >= 0
          /\ (ticks = 0 /\ last.op = "init") => Elapsed = 0
          /\ (last.op = "Eclipse" /\ last.prior = 0) => Elapsed = 0
          /\ Elapsed = 0 => /\ ioc'.Solar_power = ioc.Solar_power
                            /\ ioc'.Eclipse = 1
          /\ last.op = "tick" => Elapsed > 0
          /\ ioc'.Eclipse = 1 => ioc'.sim_time - ioc'.eclipse_begin > 0]_vars

\* The first tick after a write at t = 1 entered the eclipse has run at
\* phase 0: the onset is 1, the clock reads 2, the solar power is untouched.
C12_Witness ==
    /\ last.op = "tick" /\ last.prior = 1 /\ ioc.Eclipse = 1
    /\ ioc.eclipse_begin = 1 /\ ioc.sim_time = 2
    /\ ioc.Solar_power = ioc.init_solar_power /\ ioc.init_solar_power > 0

----------------------------------------------------------------------------
(* C13 *)

\* C13: a tick that finds the eclipse flag set more than two half durations
\* after the onset ends with the flag 0 and Solar_power equal to
\* init_solar_power: the eclipse fields are what the Eclipse putter leaves
\* when it is handed 0, not a value of the eclipse formulas.
C13_LoopClearsThroughPutter ==
    [][(TickCompletes /\ ioc.Eclipse = 1
            /\ Elapsed > 2 * eclipse_half_duration) =>
          /\ ioc'.Eclipse = 0
          /\ ioc'.Solar_power = ioc.init_solar_power
          /\ LET w == Eclipse_write(ioc, Num(0))
             IN  /\ ioc'.Eclipse = w.Eclipse
                 /\ ioc'.Solar_power = w.Solar_power
                 /\ ioc'.eclipse_begin = w.eclipse_begin]_vars

\* The loop has just ended the second eclipse, entered by a write when the
\* first one ended: the flag is 0 and the solar power is restored.
C13_Witness ==
    /\ last.op = "tick" /\ last.prior = 1 /\ ioc.Eclipse = 0
    /\ ioc.eclipse_begin = 2 * eclipse_half_duration + 2
    /\ ioc.sim_time = 2 * ioc.eclipse_begin
    /\ ioc.Solar_power = ioc.init_solar_power /\ ioc.init_solar_power > 0

----------------------------------------------------------------------------
(* C14 *)

\* The requests for flag value 1 and for flag value 0 (numbers in halves).
RequestsFor(flag) ==
    IF flag = 1 THEN {Str("Eclipse"), Num(2)} ELSE {Str("Non-Eclipse"), Num(0)}

\* C14: an eclipse write that asks for the value the flag already has commits
\* that value and changes nothing: writing 1 or "Eclipse" at flag 1 leaves
\* eclipse_begin, writing 0 or "Non-Eclipse" at flag 0 leaves Solar_power, and
\* every other field stays too.
C14_NoOpWriteChangesNothing ==
    [][(last'.op = "Eclipse" /\ last'.value \in RequestsFor(ioc.Eclipse)) =>
          /\ ioc'.Eclipse = ioc.Eclipse
          /\ ioc'.eclipse_begin = ioc.eclipse_begin
          /\ ioc'.Solar_power = ioc.Solar_power
          /\ ioc' = ioc /\ loop' = loop /\ ticks' = ticks]_vars

\* "Eclipse" was written two ticks into an eclipse entered at t = 1: the
\* onset is still 1 and the solar power is still the dipped one.
C14_Witness ==
    /\ last.op = "Eclipse" /\ last.value = Str("Eclipse") /\ last.prior = 1
    /\ ioc.Eclipse = 1 /\ ioc.eclipse_begin = 1 /\ ioc.sim_time = 3
    /\ ioc.Solar_power < ioc.init_solar_power

----------------------------------------------------------------------------
(* C15 *)

\* C15: every eclipse eventually ends, whatever clients write or do not
\* write.  An eclipse that no client ends is ended by a tick of the loop
\* only, and a loop task that has died ticks no more: so whenever the eclipse
\* flag is 1 the loop task is alive.
C15_EclipseEventuallyEnds ==
    (proc = "serving" /\ ioc.Eclipse = 1) => loop.pc # "fault"

----------------------------------------------------------------------------
(* C16 *)

\* C16: a tick that starts with net power exactly 0, or with positive net
\* power and the voltage at or above the target, leaves V_sim and I_sim as
\* they were, a non-zero discharge current of an earlier tick included; a
\* write that lowers the target leaves the voltage as well.
C16_IdleTickPublishesNothing ==
    [][/\ (TickCompletes
             /\ (NetPower = 0 \/ (NetPower > 0 /\ ioc.V_sim >= ioc.V_target)))
          => (ioc'.V_sim = ioc.V_sim /\ ioc'.I_sim = ioc.I_sim)
       /\ last'.op = "V_target"
          => (ioc'.V_sim = ioc.V_sim /\ ioc'.I_sim = ioc.I_sim)]_vars

\* After an eclipse of the program whose solar power equals the load, a tick
\* has run at net power 0 with the flag clear: the current is still the
\* discharge current of the last tick of the eclipse that discharged.
C16_Witness ==
    /\ last.op = "tick" /\ last.prior = 0 /\ ioc.Eclipse = 0
    /\ ioc.sim_time > 2 * eclipse_half_duration + 2
    /\ NetPower = 0 /\ ioc.I_sim < 0 /\ ioc.V_sim > 0

----------------------------------------------------------------------------
(* C17 *)

\* C17 as stated: no write of a client to V_target or to Eclipse changes
\* V_sim, I_sim or Solar_power.
C17_OnlyLoopPublishes ==
    [][last'.op \in {"V_target", "Eclipse"} =>
          /\ ioc'.V_sim = ioc.V_sim
          /\ ioc'.I_sim = ioc.I_sim
          /\ ioc'.Solar_power = ioc.Solar_power]_vars

\* C17 amended: no write of a client to V_target or to Eclipse changes V_sim
\* or I_sim; a write to V_target does not change Solar_power; a write to
\* Eclipse changes Solar_power only when it takes the flag from 1 to 0, and
\* then to init_solar_power.
C17_SettersOnlyRestoreSolar ==
    [][/\ last'.op \in {"V_target", "Eclipse"} =>
             (ioc'.V_sim = ioc.V_sim /\ ioc'.I_sim = ioc.I_sim)
       /\ last'.op = "V_target" => ioc'.Solar_power = ioc.Solar_power
       /\ last'.op = "Eclipse" =>
             /\ ioc'.Solar_power # ioc.Solar_power
                   => /\ ioc.Eclipse = 1 /\ ioc'.Eclipse = 0
                      /\ ioc'.Solar_power = ioc.init_solar_power
             /\ ~(ioc.Eclipse = 1 /\ ioc'.Eclipse = 0)
                   => ioc'.Solar_power = ioc.Solar_power]_vars

\* A client has written the number 0 during an eclipse whose second tick had
\* dipped the solar power, while the battery discharged or charged meanwhile:
\* the solar power is restored, voltage and current are the ticks'.
C17_Witness ==
    /\ last.op = "Eclipse" /\ last.value = Num(0) /\ last.prior = 1
    /\ ioc.Eclipse = 0 /\ ioc.eclipse_begin = 0 /\ ioc.sim_time = 2
    /\ ioc.Solar_power = ioc.init_solar_power /\ ioc.init_solar_power > 0
    /\ ioc.V_sim \notin DefaultVsim

----------------------------------------------------------------------------
(* C18 *)

\* C18: once the defaults have passed the startup checks, Solar_power lies in
\* [0, init_solar_power] and init_solar_power in [0, solar_power_max]; the
\* solar power changes only during an eclipse, by a tick's formula value or
\* by the restoration to init_solar_power.
C18_SolarPowerInRange ==
    /\ [](ioc.initOK =>
            /\ InRange(ioc.Solar_power, 0, ioc.init_solar_power)
            /\ InRange(ioc.init_solar_power, 0, solar_power_max * PowerScale))
    /\ [][ioc'.Solar_power # ioc.Solar_power =>
            /\ ioc.Eclipse = 1
            /\ TickCompletes \/ ioc'.Solar_power = ioc.init_solar_power]_vars

\* Three quarters through an eclipse entered at 0, in the recovering half:
\* the solar power is strictly between 0 and its startup value.
C18_Witness ==
    /\ last.op = "tick" /\ ioc.Eclipse = 1 /\ ioc.eclipse_begin = 0
    /\ 2 * (ioc.sim_time - 1) = 3 * eclipse_half_duration
    /\ ioc.Solar_power > 0 /\ ioc.Solar_power < ioc.init_solar_power

----------------------------------------------------------------------------
(* C19 *)

\* C19: with the tasks interleaved at their awaits, whenever the serving
\* process has the eclipse flag at 1 (so that a tick reads eclipse_begin),
\* eclipse_begin has been assigned and is at most sim_time; no tick has died
\* reading it.
C19_OnsetAssignedBeforeRead ==
    /\ (proc = "serving" /\ ioc.Eclipse = 1)
          => (ioc.eclipse_begin # NoAttr /\ ioc.eclipse_begin <= ioc.sim_time)
    /\ loop.pc # "fault"

\* A client's write took the flag from 0 to 1 while the tick at sim_time 1
\* was suspended before its eclipse update; the tick then read the flag and
\* the onset 1 and completed.
C19_Witness ==
    /\ last.op = "Eclipse" /\ last.prior = 0 /\ ioc.Eclipse = 1
    /\ ioc.eclipse_begin = 1 /\ ioc.sim_time = 2 /\ ticks = 2
    /\ loop.pc = "top" /\ Len(episode.ops) = 2 /\ episode.ops[1].op = "tick"

----------------------------------------------------------------------------
(* C20 *)

\* C20: init_solar_power never changes after startup; a write of a client to
\* V_target or to Eclipse changes neither sim_time nor init_solar_power, nor
\* the tick count and the loop's position; it changes eclipse_begin only if
\* it is an Eclipse write that takes the flag from 0 to 1.
C20_SettersLeaveSimulationState ==
    [][/\ ioc'.init_solar_power = ioc.init_solar_power
       /\ last'.op \in {"V_target", "Eclipse"} =>
             /\ ioc'.sim_time = ioc.sim_time
             /\ ticks' = ticks /\ loop' = loop
             /\ ioc'.eclipse_begin # ioc.eclipse_begin
                   => /\ last'.op = "Eclipse"
                      /\ ioc.Eclipse = 0 /\ ioc'.Eclipse = 1]_vars

\* After two ticks a client's write of "Eclipse" has stamped the onset with
\* the present time; the clock and the startup solar power are untouched.
C20_Witness ==
    /\ last.op = "Eclipse" /\ last.value = Str("Eclipse") /\ last.prior = 0
    /\ ioc.Eclipse = 1 /\ ioc.eclipse_begin = 2 /\ ioc.sim_time = 2
    /\ ticks = 2 /\ ioc.init_solar_power = solar_power_max * PowerScale

=============================================================================
